---- MODULE Spec2Model ----
(***************************************************************************)
(* jvol/io.py: the caller-facing open_image / save_image, the native       *)
(* container writer save_jvol and reader open_jvol, and fill_ijk_to_ras.   *)
(*                                                                         *)
(* The state is the file system (one file per path), the position of the   *)
(* single caller inside the running call, and the locals of that call.     *)
(* save_jvol is followed statement by statement, because what is on disk   *)
(* when one of its stages raises depends on where the file is opened.      *)
(***************************************************************************)
EXTENDS Integers, Sequences, FiniteSets, TLC

VARIABLES fs, pc, frame

vars == <<fs, pc, frame>>

(***************************************************************************)
(* Bounds of the explored inputs.                                          *)
(***************************************************************************)
\* length of the first axis of the ordinary (small) volumes
SmallAxis == 3
\* largest sample of the floating-point volumes
MaxFloatSample == 2

(***************************************************************************)
(* Integer helpers.                                                        *)
(***************************************************************************)
Max2(a, b) == IF a >= b THEN a ELSE b

SetMin(S) == CHOOSE x \in S : \A y \in S : x <= y

SetMax(S) == CHOOSE x \in S : \A y \in S : x >= y

RECURSIVE Pow2(_)
Pow2(n) == IF n = 0 THEN 1 ELSE 2 * Pow2(n - 1)

RECURSIVE SeqMin(_)
SeqMin(s) == IF Len(s) = 1 THEN s[1]
             ELSE LET m == SeqMin(Tail(s)) IN IF s[1] <= m THEN s[1] ELSE m

RECURSIVE SeqMax(_)
SeqMax(s) == IF Len(s) = 1 THEN s[1]
             ELSE LET m == SeqMax(Tail(s)) IN IF s[1] >= m THEN s[1] ELSE m

(***************************************************************************)
(* numpy element types: kind and width, and arithmetic in that width.      *)
(***************************************************************************)
DtypeInfo ==
    [int8    |-> [kind |-> "i", bits |-> 8],
     uint8   |-> [kind |-> "u", bits |-> 8],
     int16   |-> [kind |-> "i", bits |-> 16],
     uint16  |-> [kind |-> "u", bits |-> 16],
     int32   |-> [kind |-> "i", bits |-> 32],
     uint32  |-> [kind |-> "u", bits |-> 32],
     int64   |-> [kind |-> "i", bits |-> 64],
     float64 |-> [kind |-> "f", bits |-> 64]]

\* the widths whose wrap-around the explored values can reach
IsNarrow(d) == DtypeInfo[d].kind # "f" /\ DtypeInfo[d].bits <= 16

DtypeLo(d) == IF DtypeInfo[d].kind = "i" THEN 0 - Pow2(DtypeInfo[d].bits - 1) ELSE 0

DtypeHi(d) == IF DtypeInfo[d].kind = "i" THEN Pow2(DtypeInfo[d].bits - 1) - 1
              ELSE Pow2(DtypeInfo[d].bits) - 1

\* x is representable in integer type d (every explored value is below 2^31)
Fits(d, x) ==
    IF IsNarrow(d) THEN DtypeLo(d) <= x /\ x <= DtypeHi(d)
    ELSE DtypeInfo[d].kind = "i" \/ x >= 0

\* the value an integer result takes in element type d (modulo 2^bits);
\* a float64 holds the small integers used here exactly
Wrap(d, x) ==
    IF ~IsNarrow(d) THEN x
    ELSE LET m == Pow2(DtypeInfo[d].bits)
         IN  IF DtypeInfo[d].kind = "u" THEN x % m
             ELSE ((x - DtypeLo(d)) % m) + DtypeLo(d)

\* a numpy array: element type, shape, contents
NdArray(d, shape, data) == [dtype |-> d, shape |-> shape, data |-> data]

\* a numpy scalar is saved as a 0-dimensional array
Scalar(d, x) == NdArray(d, <<>>, x)

(***************************************************************************)
(* Paths.  A path is its sequence of characters; pathlib's suffix is the   *)
(* part of the final component from its last dot on, and is empty when     *)
(* that dot is the first or the last character of the component.           *)
(***************************************************************************)
RECURSIVE LastIndexOf(_, _)
LastIndexOf(s, c) ==
    IF Len(s) = 0 THEN 0
    ELSE IF s[Len(s)] = c THEN Len(s)
    ELSE LastIndexOf(SubSeq(s, 1, Len(s) - 1), c)

PathName(path) == SubSeq(path, LastIndexOf(path, "/") + 1, Len(path))

Suffix(path) ==
    LET name == PathName(path)
        i    == LastIndexOf(name, ".")
    IN  IF 1 < i /\ i < Len(name) THEN SubSeq(name, i, Len(name)) ELSE <<>>

JvolSuffix == <<".", "j", "v", "o", "l">>

PJvol == <<"a", ".", "j", "v", "o", "l">>

PNii == <<"a", ".", "n", "i", "i">>

PUpper == <<"a", ".", "J", "V", "O", "L">>

PHidden == <<".", "j", "v", "o", "l">>

PGz == <<"a", ".", "j", "v", "o", "l", ".", "g", "z">>

PDir == <<"d", ".", "j", "v", "o", "l", "/", "a">>

PNested == <<"d", ".", "n", "i", "i", "/", "b", ".", "j", "v", "o", "l">>

Paths == {PJvol, PNii, PUpper, PHidden, PGz, PDir, PNested}

(***************************************************************************)
(* Container field names.                                                  *)
(***************************************************************************)
FormatKeys ==
    [IJK_TO_RAS            |-> "ijk_to_ras",
     QUANTIZATION_BLOCK    |-> "quantization_block",
     DC_RLE_VALUES         |-> "dc_rle_values",
     DC_RLE_COUNTS         |-> "dc_rle_counts",
     AC_RLE_VALUES         |-> "ac_rle_values",
     AC_RLE_COUNTS         |-> "ac_rle_counts",
     AC_HUFFMAN_EOF_SYMBOL |-> "ac_huffman_eof_symbol",
     AC_HUFFMAN_SYMBOLS    |-> "ac_huffman_symbols",
     AC_HUFFMAN_BITS       |-> "ac_huffman_bits",
     AC_HUFFMAN_VALUES     |-> "ac_huffman_values",
     AC_HUFFMAN_ENCODING   |-> "ac_huffman_encoding",
     DTYPE                 |-> "dtype",
     INTERCEPT             |-> "intercept",
     SLOPE                 |-> "slope",
     SHAPE                 |-> "shape"]

(***************************************************************************)
(* Files.  np.savez stores every value as an .npy member: a header with    *)
(* the type descriptor and the shape, then the data; np.load parses the    *)
(* descriptor back into an element type.                                   *)
(***************************************************************************)
NoFile == [format |-> "none"]

EmptyFile == [format |-> "empty"]

NpzFile(members) == [format |-> "npz", members |-> members]

ItkFile(array, ijk_to_ras) ==
    [format |-> "itk", array |-> array, ijk_to_ras |-> ijk_to_ras]

Descr ==
    [int8    |-> "|i1", uint8  |-> "|u1",
     int16   |-> "<i2", uint16 |-> "<u2",
     int32   |-> "<i4", uint32 |-> "<u4",
     int64   |-> "<i8", float64 |-> "<f8"]

DtypeOfDescr(descr) == CHOOSE d \in DOMAIN Descr : Descr[d] = descr

NpyWrite(a) == [descr |-> Descr[a.dtype], shape |-> a.shape, data |-> a.data]

NpyRead(m) == NdArray(DtypeOfDescr(m.descr), m.shape, m.data)

Savez(save_dict) == NpzFile([k \in DOMAIN save_dict |-> NpyWrite(save_dict[k])])

(***************************************************************************)
(* The codec modules io.py imports (encoding, decoding, huffman, casting). *)
(* An outcome is either a raised exception or a returned value.            *)
(***************************************************************************)
Raise(e) == [ok |-> FALSE, error |-> e]

Return(v) == [ok |-> TRUE, value |-> v]

\* a volume: its element type, shape and the set of its distinct samples
Volume(d, shape, samples) == NdArray(d, shape, samples)

Size(shape) == shape[1] * shape[2] * shape[3]

CeilDiv(a, b) == (a + b - 1) \div b

NumBlocks(shape, block_shape) ==
    CeilDiv(shape[1], block_shape[1]) * CeilDiv(shape[2], block_shape[2])
        * CeilDiv(shape[3], block_shape[3])

\* distance of the k-th coefficient (C order, from 0) from the DC corner
Frequency(k, block_shape) ==
    (k \div (block_shape[2] * block_shape[3]))
        + ((k \div block_shape[3]) % block_shape[2])
        + (k % block_shape[3])

Divisor(k, block_shape, quality) ==
    Max2(1, (10 * (1 + Frequency(k, block_shape)) * (100 - quality)) \div 100)

\* encoding.get_quantization_table: a table shaped like one block, or a
\* usage error for a quality outside [1, 100] or a non-positive dimension
get_quantization_table(block_shape, quality) ==
    IF quality < 1 \/ quality > 100 \/ \E i \in 1..3 : block_shape[i] <= 0
    THEN Raise("ValueError")
    ELSE Return(NdArray("uint16", block_shape,
                        [k \in 1..Size(block_shape) |->
                            Divisor(k - 1, block_shape, quality)]))

\* the run-length pairs encode_array can return for a volume: the DC
\* stream has one entry per block, as one run or as two; the AC stream has
\* the remaining coefficients of every block.  Both are int64 arrays:
\* narrowing is left to serialization.
DcRuns(array, quantization_table) ==
    LET n == NumBlocks(array.shape, quantization_table.shape)
    IN  {[values |-> <<0>>, counts |-> <<n>>]}
            \cup (IF n >= 2 /\ Cardinality(array.data) >= 2
                  THEN {[values |-> <<0 - 3, 300>>, counts |-> <<1, n - 1>>]}
                  ELSE {})

AcRuns(array, quantization_table) ==
    LET n == NumBlocks(array.shape, quantization_table.shape)
                 * (Size(quantization_table.shape) - 1)
    IN  IF n = 0 THEN [values |-> <<>>, counts |-> <<>>]
        ELSE [values |-> <<0>>, counts |-> <<n>>]

encode_array(array, quantization_table) ==
    {Raise("MemoryError")} \cup
    {Return([dc_rle_values |-> NdArray("int64", <<Len(dc.values)>>, dc.values),
             dc_rle_counts |-> NdArray("int64", <<Len(dc.counts)>>, dc.counts),
             ac_rle_values |-> NdArray("int64", <<Len(AcRuns(array, quantization_table).values)>>,
                                       AcRuns(array, quantization_table).values),
             ac_rle_counts |-> NdArray("int64", <<Len(AcRuns(array, quantization_table).counts)>>,
                                       AcRuns(array, quantization_table).counts)])
        : dc \in DcRuns(array, quantization_table)}

\* huffman.HuffmanCoding.from_rle: the table and payload of the AC runs,
\* with an end-of-stream symbol outside the observed symbols
HuffmanCoding_from_rle(ac_rle_values, ac_rle_counts) ==
    {Raise("MemoryError"),
     Return([eof_symbol     |-> Scalar("int64",
                                 IF Len(ac_rle_counts.data) = 0 THEN 0
                                 ELSE SeqMax(ac_rle_counts.data) + 1),
             symbols_values |-> ac_rle_values,
             symbols_counts |-> ac_rle_counts,
             bitsizes       |-> NdArray("uint8", <<1>>, <<1>>),
             values         |-> NdArray("int64", <<Len(ac_rle_counts.data) + 1>>,
                                        Append(ac_rle_counts.data,
                                               IF Len(ac_rle_counts.data) = 0 THEN 0
                                               ELSE SeqMax(ac_rle_counts.data) + 1)),
             data           |-> NdArray("uint8", <<1>>, <<Len(ac_rle_counts.data)>>)])}

\* casting.to_min_scalar_type: the same values in the narrowest integer
\* type that holds their range
IntTypesByWidth == <<"uint8", "int8", "uint16", "int16", "uint32", "int32", "int64">>

MinScalarType(lo, hi) ==
    LET i == CHOOSE j \in 1..Len(IntTypesByWidth) :
                 /\ Fits(IntTypesByWidth[j], lo) /\ Fits(IntTypesByWidth[j], hi)
                 /\ \A k \in 1..(j - 1) :
                        ~(Fits(IntTypesByWidth[k], lo) /\ Fits(IntTypesByWidth[k], hi))
    IN  IntTypesByWidth[i]

to_min_scalar_type(a) ==
    NdArray(MinScalarType(SeqMin(a.data), SeqMax(a.data)), a.shape, a.data)

\* decoding.decode_array: the reconstructed volume has the element type and
\* the target shape it is given
decode_array(dc_rle_values, dc_rle_counts, quantization_block, target_shape, intercept, slope, dtype, huffman_coding) ==
    [dtype |-> dtype,
     shape |-> <<target_shape.data[1], target_shape.data[2], target_shape.data[3]>>]

(***************************************************************************)
(* The initial state: no file exists and no call has been made.            *)
(***************************************************************************)
Init ==
    /\ fs = [p \in Paths |-> NoFile]
    /\ pc = "ready"
    /\ frame = [fn |-> "none"]

\* the caller can make a call when the previous one has ended
Resting == {"ready", "returned", "raised"}

\* the call ends by raising e at the statement it is at
Throw(e) ==
    /\ pc' = "raised"
    /\ frame' = [error |-> e, at |-> pc] @@ frame

(***************************************************************************)
(* save_image                                                              *)
(***************************************************************************)
\* save_itk_image: the generic adapter writes the image to the path
save_itk_image(array, ijk_to_ras, path) ==
    /\ fs' = [fs EXCEPT ![path] = ItkFile(array, ijk_to_ras)]
    /\ pc' = "returned"

save_jvol_opening_first(array, ijk_to_ras, path, kwargs) ==
    /\ pc' = "quantize"
    /\ frame' = [fn |-> "save_image", callee |-> "save_jvol", before |-> fs[path],
                 array |-> array, ijk_to_ras |-> ijk_to_ras, path |-> path,
                 kwargs |-> kwargs,
                 block_size |-> IF "block_size" \in DOMAIN kwargs
                                THEN kwargs["block_size"] ELSE 4,
                 quality |-> IF "quality" \in DOMAIN kwargs
                             THEN kwargs["quality"] ELSE 60]
    /\ fs' = [fs EXCEPT ![path] = EmptyFile]

\* save_jvol binds its keyword arguments, with block_size = 4 and
\* quality = 60 when they are not given, and starts at its first statement
save_jvol(array, ijk_to_ras, path, kwargs) ==
    /\ pc' = "quantize"
    /\ frame' = [fn |-> "save_image", callee |-> "save_jvol", before |-> fs[path],
                 array |-> array, ijk_to_ras |-> ijk_to_ras, path |-> path,
                 kwargs |-> kwargs,
                 block_size |-> IF "block_size" \in DOMAIN kwargs
                                THEN kwargs["block_size"] ELSE 4,
                 quality |-> IF "quality" \in DOMAIN kwargs
                             THEN kwargs["quality"] ELSE 60]
    /\ UNCHANGED fs

save_image(array, ijk_to_ras, path, kwargs) ==
    /\ pc \in Resting
    /\ IF Suffix(path) = JvolSuffix
       THEN save_jvol(array, ijk_to_ras, path, kwargs)
       ELSE /\ save_itk_image(array, ijk_to_ras, path)
            /\ frame' = [fn |-> "save_image", callee |-> "save_itk_image",
                         before |-> fs[path], array |-> array,
                         ijk_to_ras |-> ijk_to_ras, path |-> path, kwargs |-> kwargs]

(***************************************************************************)
(* save_jvol, statement by statement                                       *)
(***************************************************************************)
\* block_shape = block_size, block_size, block_size
\* quantization_table = get_quantization_table(block_shape, quality)
Quantize ==
    /\ pc = "quantize"
    /\ LET block_shape == <<frame.block_size, frame.block_size, frame.block_size>>
           r == get_quantization_table(block_shape, frame.quality)
       IN  IF r.ok
           THEN /\ pc' = "minmax"
                /\ frame' = [block_shape |-> block_shape,
                             quantization_table |-> r.value] @@ frame
           ELSE Throw(r.error)
    /\ UNCHANGED fs

\* array.min() of an array without elements raises
ArrayMin(array) ==
    IF array.data = {} THEN Raise("ValueError")
    ELSE Return(Scalar(array.dtype, SetMin(array.data)))

ArrayMax(array) ==
    IF array.data = {} THEN Raise("ValueError")
    ELSE Return(Scalar(array.dtype, SetMax(array.data)))

\* the difference of two scalars of one element type, in that type
ScalarSub(a, b) == Scalar(a.dtype, Wrap(a.dtype, a.data - b.data))

\* dtype = array.dtype; intercept = array.min(); slope = array.max() - intercept
MinMax ==
    /\ pc = "minmax"
    /\ LET lo == ArrayMin(frame.array)
           hi == ArrayMax(frame.array)
       IN  IF lo.ok /\ hi.ok
           THEN /\ pc' = "encode"
                /\ frame' = [dtype |-> frame.array.dtype,
                             intercept |-> lo.value,
                             slope |-> ScalarSub(hi.value, lo.value)] @@ frame
           ELSE Throw(IF lo.ok THEN hi.error ELSE lo.error)
    /\ UNCHANGED fs

\* dc_rle_values, dc_rle_counts, ac_rle_values, ac_rle_counts =
\*     encode_array(array, quantization_table)
Encode ==
    /\ pc = "encode"
    /\ \E r \in encode_array(frame.array, frame.quantization_table) :
          IF r.ok
          THEN /\ pc' = "huffman"
               /\ frame' = [encode_args |-> [array |-> frame.array,
                                quantization_table |-> frame.quantization_table]]
                           @@ r.value @@ frame
          ELSE Throw(r.error)
    /\ UNCHANGED fs

\* huffman = HuffmanCoding.from_rle(ac_rle_values, ac_rle_counts)
Huffman ==
    /\ pc = "huffman"
    /\ \E r \in HuffmanCoding_from_rle(frame.ac_rle_values, frame.ac_rle_counts) :
          IF r.ok
          THEN /\ pc' = "build"
               /\ frame' = [huffman |-> r.value] @@ frame
          ELSE Throw(r.error)
    /\ UNCHANGED fs

\* ijk_to_ras[:3]: the first three rows (fewer when there are fewer)
FirstThreeRows(m) ==
    LET n == IF Len(m.data) < 3 THEN Len(m.data) ELSE 3
    IN  NdArray(m.dtype, <<n, m.shape[2]>>, SubSeq(m.data, 1, n))

\* np.array(array.shape, dtype=np.uint16): an axis length that does not
\* fit 16 bits is reduced modulo 2^16 by the older numpy releases and
\* rejected with OverflowError by the newer ones
ShapeAsUint16(shape) ==
    IF \A i \in 1..Len(shape) : Fits("uint16", shape[i])
    THEN {Return(NdArray("uint16", <<Len(shape)>>, shape))}
    ELSE {Return(NdArray("uint16", <<Len(shape)>>,
                         [i \in 1..Len(shape) |-> Wrap("uint16", shape[i])])),
          Raise("OverflowError")}

\* np.empty((), dtype=dtype) does not initialise its element
Uninitialised == {0, 1}

EmptyScalarDefaultType(dtype, garbage) == Scalar("float64", garbage)

\* np.empty((), dtype=dtype): a 0-dimensional array that carries the type
EmptyScalar(dtype, garbage) == Scalar(dtype, garbage)

\* the dictionary save_jvol hands to np.savez
SaveDict(f, shape_array, garbage) ==
    (FormatKeys.IJK_TO_RAS :> FirstThreeRows(f.ijk_to_ras))
    @@ (FormatKeys.QUANTIZATION_BLOCK :> f.quantization_table)
    @@ (FormatKeys.DC_RLE_VALUES :> to_min_scalar_type(f.dc_rle_values))
    @@ (FormatKeys.DC_RLE_COUNTS :> f.dc_rle_counts)
    @@ (FormatKeys.DTYPE :> EmptyScalar(f.dtype, garbage))
    @@ (FormatKeys.INTERCEPT :> f.intercept)
    @@ (FormatKeys.SLOPE :> f.slope)
    @@ (FormatKeys.SHAPE :> shape_array)
    @@ ("huffman_eof_symbol" :> f.huffman.eof_symbol)
    @@ ("huffman_symbols_values" :> f.huffman.symbols_values)
    @@ ("huffman_symbols_counts" :> f.huffman.symbols_counts)
    @@ ("huffman_bitsizes" :> f.huffman.bitsizes)
    @@ ("huffman_values" :> f.huffman.values)
    @@ ("huffman_data" :> f.huffman.data)

\* save_dict = {...}
BuildDict ==
    /\ pc = "build"
    /\ \E r \in ShapeAsUint16(frame.array.shape), garbage \in Uninitialised :
          IF r.ok
          THEN /\ pc' = "open"
               /\ frame' = [save_dict |-> SaveDict(frame, r.value, garbage)] @@ frame
          ELSE Throw(r.error)
    /\ UNCHANGED fs

\* with open(path, "wb") as f: the file is created, or truncated
OpenForWriting ==
    /\ pc = "open"
    /\ fs' = [fs EXCEPT ![frame.path] = EmptyFile]
    /\ pc' = "savez"
    /\ UNCHANGED frame

\* np.savez(f, **save_dict)
WriteNpz ==
    /\ pc = "savez"
    /\ fs' = [fs EXCEPT ![frame.path] = Savez(frame.save_dict)]
    /\ pc' = "returned"
    /\ UNCHANGED frame

(***************************************************************************)
(* open_image                                                              *)
(***************************************************************************)
fill_ijk_to_ras_zero_row(ijk_to_ras) ==
    NdArray("float64", <<ijk_to_ras.shape[1] + 1, ijk_to_ras.shape[2]>>,
            Append(ijk_to_ras.data, <<0, 0, 0, 0>>))

\* np.vstack((ijk_to_ras, [0, 0, 0, 1]))
fill_ijk_to_ras(ijk_to_ras) ==
    LET last_row == <<0, 0, 0, 1>>
    IN  NdArray("float64", <<ijk_to_ras.shape[1] + 1, ijk_to_ras.shape[2]>>,
                Append(ijk_to_ras.data, last_row))

ReadKeysFromEnum ==
    <<FormatKeys.IJK_TO_RAS, FormatKeys.QUANTIZATION_BLOCK,
      "huffman_data", "huffman_symbols_values", "huffman_symbols_counts",
      "huffman_bitsizes", FormatKeys.AC_HUFFMAN_VALUES, "huffman_eof_symbol",
      FormatKeys.DC_RLE_VALUES, FormatKeys.DC_RLE_COUNTS, FormatKeys.SHAPE,
      FormatKeys.INTERCEPT, FormatKeys.SLOPE, FormatKeys.DTYPE>>

\* the fields open_jvol looks up, in the order it looks them up
ReadKeys ==
    <<FormatKeys.IJK_TO_RAS, FormatKeys.QUANTIZATION_BLOCK,
      "huffman_data", "huffman_symbols_values", "huffman_symbols_counts",
      "huffman_bitsizes", "huffman_values", "huffman_eof_symbol",
      FormatKeys.DC_RLE_VALUES, FormatKeys.DC_RLE_COUNTS, FormatKeys.SHAPE,
      FormatKeys.INTERCEPT, FormatKeys.SLOPE, FormatKeys.DTYPE>>

\* np.load(path): the members of the archive, each parsed when looked up
NpLoad(file) ==
    IF file.format = "none" THEN Raise("FileNotFoundError")
    ELSE IF file.format # "npz" THEN Raise("ValueError")
    ELSE Return([k \in DOMAIN file.members |-> NpyRead(file.members[k])])

DecodeArgsRegeneratedTable(loaded) ==
    [dc_rle_values      |-> loaded[FormatKeys.DC_RLE_VALUES],
     dc_rle_counts      |-> loaded[FormatKeys.DC_RLE_COUNTS],
     quantization_block |-> get_quantization_table(<<4, 4, 4>>, 60).value,
     target_shape       |-> loaded[FormatKeys.SHAPE],
     intercept          |-> loaded[FormatKeys.INTERCEPT],
     slope              |-> loaded[FormatKeys.SLOPE],
     dtype              |-> loaded[FormatKeys.DTYPE].dtype,
     huffman_coding     |-> [data           |-> loaded["huffman_data"],
                             symbols_values |-> loaded["huffman_symbols_values"],
                             symbols_counts |-> loaded["huffman_symbols_counts"],
                             bitsizes       |-> loaded["huffman_bitsizes"],
                             values         |-> loaded["huffman_values"],
                             eof_symbol     |-> loaded["huffman_eof_symbol"]]]

\* the arguments open_jvol passes to decode_array
DecodeArgs(loaded) ==
    [dc_rle_values      |-> loaded[FormatKeys.DC_RLE_VALUES],
     dc_rle_counts      |-> loaded[FormatKeys.DC_RLE_COUNTS],
     quantization_block |-> loaded[FormatKeys.QUANTIZATION_BLOCK],
     target_shape       |-> loaded[FormatKeys.SHAPE],
     intercept          |-> loaded[FormatKeys.INTERCEPT],
     slope              |-> loaded[FormatKeys.SLOPE],
     dtype              |-> loaded[FormatKeys.DTYPE].dtype,
     huffman_coding     |-> [data           |-> loaded["huffman_data"],
                             symbols_values |-> loaded["huffman_symbols_values"],
                             symbols_counts |-> loaded["huffman_symbols_counts"],
                             bitsizes       |-> loaded["huffman_bitsizes"],
                             values         |-> loaded["huffman_values"],
                             eof_symbol     |-> loaded["huffman_eof_symbol"]]]

open_jvol(path) ==
    LET r == NpLoad(fs[path])
        call == [fn |-> "open_image", callee |-> "open_jvol", path |-> path]
    IN  IF ~r.ok
        THEN /\ pc' = "raised"
             /\ frame' = [error |-> r.error, at |-> "load"] @@ call
        ELSE IF \E i \in 1..Len(ReadKeys) : ReadKeys[i] \notin DOMAIN r.value
        THEN /\ pc' = "raised"
             /\ frame' = [error |-> "KeyError", at |-> "lookup",
                          key |-> ReadKeys[CHOOSE i \in 1..Len(ReadKeys) :
                                      /\ ReadKeys[i] \notin DOMAIN r.value
                                      /\ \A j \in 1..(i - 1) :
                                             ReadKeys[j] \in DOMAIN r.value]]
                         @@ call
        ELSE LET a == DecodeArgs(r.value)
             IN  /\ pc' = "returned"
                 /\ frame' = [loaded |-> r.value,
                              decode_args |-> a,
                              array |-> decode_array(a.dc_rle_values, a.dc_rle_counts,
                                            a.quantization_block, a.target_shape,
                                            a.intercept, a.slope, a.dtype,
                                            a.huffman_coding),
                              ijk_to_ras |-> fill_ijk_to_ras(r.value[FormatKeys.IJK_TO_RAS])]
                             @@ call

\* open_itk_image: the generic adapter reads the image at the path
open_itk_image(path) ==
    LET call == [fn |-> "open_image", callee |-> "open_itk_image", path |-> path]
    IN  IF fs[path].format = "itk"
        THEN /\ pc' = "returned"
             /\ frame' = [array |-> fs[path].array,
                          ijk_to_ras |-> fs[path].ijk_to_ras] @@ call
        ELSE /\ pc' = "raised"
             /\ frame' = [error |-> "RuntimeError", at |-> "imread"] @@ call

open_image_by_ending(path) ==
    /\ pc \in Resting
    /\ IF Len(path) >= 5 /\ SubSeq(path, Len(path) - 4, Len(path)) = JvolSuffix
       THEN open_jvol(path) ELSE open_itk_image(path)
    /\ UNCHANGED fs

open_image(path) ==
    /\ pc \in Resting
    /\ IF Suffix(path) = JvolSuffix THEN open_jvol(path) ELSE open_itk_image(path)
    /\ UNCHANGED fs

(***************************************************************************)
(* The explored inputs.                                                    *)
(***************************************************************************)
\* extreme and ordinary samples of each element type
Samples ==
    [int8    |-> {0 - 128, 127},
     uint8   |-> {0, 255},
     int16   |-> {0 - 32768, 32767},
     float64 |-> {0 - 1, MaxFloatSample}]

SmallShape == <<SmallAxis, 2, 1>>

NumericVolumes ==
    UNION {{Volume(d, SmallShape, {lo, hi}) : lo \in Samples[d], hi \in Samples[d]}
           : d \in DOMAIN Samples}

\* shapes with an empty axis, a single sample, axes the block sizes do not
\* divide, and axes at and beyond the 16-bit limit
Shapes ==
    {<<0, 2, 1>>, <<1, 1, 1>>, SmallShape, <<SmallAxis + 2, SmallAxis, 2>>,
     <<65535, 1, 1>>, <<65536, 1, 1>>, <<1, 2, 65537>>}

ShapeVolumes ==
    {Volume("uint8", sh, IF Size(sh) = 0 THEN {}
                         ELSE IF Size(sh) = 1 THEN {7} ELSE {0, 255}) : sh \in Shapes}

Volumes == NumericVolumes \cup ShapeVolumes

BaseVolume == Volume("uint8", SmallShape, {0, 255})

\* 4x4 index-to-physical transforms, with and without the row [0, 0, 0, 1]
Transform(top, last) == NdArray("float64", <<4, 4>>, Append(top, last))

TopRows ==
    {<<<<1, 0, 0, 0>>, <<0, 1, 0, 0>>, <<0, 0, 1, 0>>>>,
     <<<<0, 2, 0, 5>>, <<0 - 3, 0, 0, 7>>, <<0, 0, 1, 0 - 9>>>>}

LastRows == {<<0, 0, 0, 1>>, <<0, 0, 0, 2>>, <<1, 2, 3, 1>>}

Transforms == {Transform(top, last) : top \in TopRows, last \in LastRows}

BaseTransform ==
    Transform(<<<<1, 0, 0, 0>>, <<0, 1, 0, 0>>, <<0, 0, 1, 0>>>>, <<0, 0, 0, 1>>)

\* keyword arguments: none, block_size alone, or both
Qualities == {0, 1, 100, 101}

BlockSizes == {0 - 1, 0, 1, 2}

Kwargs ==
    {[n \in {} |-> 0]}
        \cup {[n \in {"block_size"} |-> b] : b \in BlockSizes}
        \cup {[n \in {"block_size", "quality"} |->
                  IF n = "block_size" THEN b ELSE q] : b \in BlockSizes, q \in Qualities}

BaseKwargs == [n \in {"block_size"} |-> 2]

SaveArgs(array, ijk_to_ras, path, kwargs) ==
    [array |-> array, ijk_to_ras |-> ijk_to_ras, path |-> path, kwargs |-> kwargs]

\* every volume, every transform and every keyword combination is saved to
\* the native path; every keyword combination also to a generic-image path
SaveInputs ==
    {SaveArgs(v, BaseTransform, PJvol, BaseKwargs) : v \in Volumes}
        \cup {SaveArgs(BaseVolume, t, PJvol, BaseKwargs) : t \in Transforms}
        \cup {SaveArgs(BaseVolume, BaseTransform, p, k) : p \in {PJvol, PNii}, k \in Kwargs}

OpenInputs == {PJvol, PNii}

\* one volume saved to and opened from every path
DispatchSaveInputs ==
    {SaveArgs(Volume("uint8", <<1, 1, 1>>, {7}), BaseTransform, p, BaseKwargs) :
        p \in Paths}

(***************************************************************************)
(* Specifications.                                                         *)
(***************************************************************************)
SaveImageCall ==
    \E a \in SaveInputs : save_image(a.array, a.ijk_to_ras, a.path, a.kwargs)

OpenImageCall == \E p \in OpenInputs : open_image(p)

Next ==
    \/ SaveImageCall
    \/ OpenImageCall
    \/ Quantize
    \/ MinMax
    \/ Encode
    \/ Huffman
    \/ BuildDict
    \/ OpenForWriting
    \/ WriteNpz

Spec == Init /\ [][Next]_vars

DispatchSaveCall ==
    \E a \in DispatchSaveInputs : save_image(a.array, a.ijk_to_ras, a.path, a.kwargs)

DispatchOpenCall == \E p \in Paths : open_image(p)

NextDispatch ==
    \/ DispatchSaveCall
    \/ DispatchOpenCall
    \/ Quantize
    \/ MinMax
    \/ Encode
    \/ Huffman
    \/ BuildDict
    \/ OpenForWriting
    \/ WriteNpz

SpecDispatch == Init /\ [][NextDispatch]_vars

(***************************************************************************)
(* Properties.                                                             *)
(***************************************************************************)
InSaveJvol == frame.fn = "save_image" /\ frame.callee = "save_jvol"

JvolSaved == InSaveJvol /\ pc = "returned"

InOpenJvol == frame.fn = "open_image" /\ frame.callee = "open_jvol"

JvolOpened == InOpenJvol /\ pc = "returned"

\* the field of the container at path p, as np.load parses it
Stored(p, key) == NpyRead(fs[p].members[key])

KwQuality(kwargs) == IF "quality" \in DOMAIN kwargs THEN kwargs["quality"] ELSE 60

KwBlockSize(kwargs) == IF "block_size" \in DOMAIN kwargs THEN kwargs["block_size"] ELSE 4

InvalidUsage(kwargs) ==
    KwQuality(kwargs) < 1 \/ KwQuality(kwargs) > 100 \/ KwBlockSize(kwargs) <= 0

\* C1: a save_image call with quality outside [1, 100] or block_size <= 0
\* never returns normally, whatever the extension of the path, and leaves
\* the file at the path as it was before the call.
C1_InvalidUsageFails ==
    (frame.fn = "save_image" /\ InvalidUsage(frame.kwargs))
        => (pc # "returned" /\ fs[frame.path] = frame.before)

\* C2: after save_jvol, the stored intercept is the minimum sample and the
\* stored slope is the true difference maximum - minimum, never negative.
C2_InterceptAndSlope ==
    JvolSaved =>
        /\ Stored(frame.path, "intercept").data = SetMin(frame.array.data)
        /\ Stored(frame.path, "slope").data
               = SetMax(frame.array.data) - SetMin(frame.array.data)
        /\ Stored(frame.path, "slope").data >= 0

\* C3: after save_jvol the stored shape equals the shape of the volume on
\* every axis, and open_jvol passes the stored shape to decode_array, whose
\* result has that shape.
C3_ShapeFidelity ==
    /\ JvolSaved =>
           /\ Stored(frame.path, "shape").dtype = "uint16"
           /\ Stored(frame.path, "shape").data = frame.array.shape
    /\ JvolOpened =>
           /\ frame.decode_args.target_shape = Stored(frame.path, "shape")
           /\ frame.array.shape = Stored(frame.path, "shape").data

\* C4: open_jvol returns the stored 3x4 block followed by [0, 0, 0, 1];
\* save_jvol stores the first three rows of the transform it is given, so a
\* transform whose last row is [0, 0, 0, 1] reads back equal to itself.
C4_TransformCompleted ==
    /\ JvolOpened =>
           /\ Stored(frame.path, "ijk_to_ras").shape = <<3, 4>>
           /\ frame.ijk_to_ras.data
                  = Append(Stored(frame.path, "ijk_to_ras").data, <<0, 0, 0, 1>>)
    /\ JvolSaved =>
           /\ Stored(frame.path, "ijk_to_ras").data = SubSeq(frame.ijk_to_ras.data, 1, 3)
           /\ SubSeq(fill_ijk_to_ras(Stored(frame.path, "ijk_to_ras")).data, 1, 3)
                  = SubSeq(frame.ijk_to_ras.data, 1, 3)
           /\ (frame.ijk_to_ras.data[4] = <<0, 0, 0, 1>>
                  => fill_ijk_to_ras(Stored(frame.path, "ijk_to_ras")) = frame.ijk_to_ras)

C4_Witness ==
    /\ JvolOpened
    /\ frame.ijk_to_ras.data[1] = <<0, 2, 0, 5>>

\* C5: the element type stored by save_jvol is the element type of the
\* saved array, and open_jvol passes the stored element type to
\* decode_array, whose result has it.
C5_ElementTypePreserved ==
    /\ JvolSaved => Stored(frame.path, "dtype").dtype = frame.array.dtype
    /\ JvolOpened =>
           /\ frame.decode_args.dtype = Stored(frame.path, "dtype").dtype
           /\ frame.array.dtype = Stored(frame.path, "dtype").dtype

C5_Witness ==
    /\ JvolOpened
    /\ frame.array.dtype = "int16"

\* C6: save_image and open_image both choose the native codec exactly when
\* the suffix of the path is ".jvol", so every file is in the format of the
\* reader open_image chooses for its path, and open_image fails on the
\* format of a file only when there is no file.
C6_DispatchBySuffix ==
    /\ frame.fn = "save_image"
           => (frame.callee = "save_jvol" <=> Suffix(frame.path) = JvolSuffix)
    /\ frame.fn = "open_image"
           => (frame.callee = "open_jvol" <=> Suffix(frame.path) = JvolSuffix)
    /\ \A p \in Paths :
           /\ fs[p].format \in {"npz", "empty"} => Suffix(p) = JvolSuffix
           /\ fs[p].format = "itk" => Suffix(p) # JvolSuffix
    /\ (frame.fn = "open_image" /\ pc = "raised") => fs[frame.path].format = "none"

C6_Witness ==
    /\ pc = "returned"
    /\ frame.fn = "open_image"
    /\ frame.path = PHidden
    /\ fs[PNested].format = "npz"

\* the statements of save_jvol before the file is opened, in order
StagesBeforeOpen == <<"quantize", "minmax", "encode", "huffman", "build">>

Position(label) ==
    IF \E i \in 1..Len(StagesBeforeOpen) : StagesBeforeOpen[i] = label
    THEN CHOOSE i \in 1..Len(StagesBeforeOpen) : StagesBeforeOpen[i] = label
    ELSE IF label = "open" THEN 6
    ELSE IF label = "savez" THEN 7
    ELSE 8

\* C7: while save_jvol is generating the table, encoding or building the
\* Huffman code, and after any of these has raised, the file at the path is
\* as it was before the call; the file changes only once their results are
\* in hand; and the call only moves forward, no statement runs twice.
C7_FileOpenedAfterStages ==
    /\ [](InSaveJvol =>
            /\ (pc \in {"quantize", "minmax", "encode", "huffman", "build", "raised"}
                   => fs[frame.path] = frame.before)
            /\ (pc \in {"savez", "returned"}
                   => {"quantization_table", "dc_rle_values", "huffman"}
                          \subseteq DOMAIN frame))
    /\ [][(fs' # fs /\ pc \notin Resting) => pc \in {"open", "savez"}]_vars
    /\ [][(pc \notin Resting /\ pc' # "raised") => Position(pc') = Position(pc) + 1]_vars

C7_Witness ==
    /\ InSaveJvol
    /\ pc = "raised"
    /\ frame.at = "huffman"
    /\ frame.before.format = "npz"
    /\ fs[frame.path] = frame.before

\* C8: the table save_jvol passes to encode_array is the one generated from
\* ((block_size, block_size, block_size), quality), the stored table is that
\* table, and open_jvol passes the stored table to decode_array.
C8_SameQuantizationTable ==
    /\ (InSaveJvol /\ pc \in {"huffman", "build", "open", "savez", "returned"}) =>
           frame.encode_args.quantization_table
               = get_quantization_table(
                     <<frame.block_size, frame.block_size, frame.block_size>>,
                     frame.quality).value
    /\ JvolSaved =>
           Stored(frame.path, "quantization_block") = frame.encode_args.quantization_table
    /\ JvolOpened =>
           frame.decode_args.quantization_block = Stored(frame.path, "quantization_block")

C8_Witness ==
    /\ JvolOpened
    /\ frame.decode_args.quantization_block.shape = <<2, 2, 2>>
    /\ frame.decode_args.quantization_block.data[8] > 1

WrittenKeys ==
    {"ijk_to_ras", "quantization_block", "dc_rle_values", "dc_rle_counts", "dtype",
     "intercept", "slope", "shape", "huffman_eof_symbol", "huffman_symbols_values",
     "huffman_symbols_counts", "huffman_bitsizes", "huffman_values", "huffman_data"}

\* C9: every container save_jvol writes has exactly the fields open_jvol
\* looks up, under the same names, and open_jvol never fails for a missing
\* field.
C9_WriterAndReaderAgreeOnFields ==
    /\ \A p \in Paths :
           fs[p].format = "npz" =>
               /\ DOMAIN fs[p].members = {ReadKeys[i] : i \in 1..Len(ReadKeys)}
               /\ DOMAIN fs[p].members = WrittenKeys
    /\ (InOpenJvol /\ pc = "raised") => frame.error # "KeyError"

C9_Witness ==
    /\ JvolOpened
    /\ DOMAIN frame.loaded = WrittenKeys

NarrowestType(a) == MinScalarType(SeqMin(a.data), SeqMax(a.data))

\* C10: both DC run-length arrays are stored in the narrowest integer type
\* that holds their range, with every element unchanged.
C10_DcRunsNarrowed ==
    JvolSaved =>
        /\ Stored(frame.path, "dc_rle_values").dtype = NarrowestType(frame.dc_rle_values)
        /\ Stored(frame.path, "dc_rle_values").data = frame.dc_rle_values.data
        /\ Stored(frame.path, "dc_rle_counts").dtype = NarrowestType(frame.dc_rle_counts)
        /\ Stored(frame.path, "dc_rle_counts").data = frame.dc_rle_counts.data

====
